---- MODULE Spec2Model ----
(***************************************************************************)
(* Address Resolution Pipeline of volterra-asset-map.                      *)
(*                                                                         *)
(* Two batch stages work on the table asset_map.facilities:                *)
(*   - the matching stage (scripts/sync-hubspot.ts) links a facility to a  *)
(*     HubSpot company and copies the company's address;                   *)
(*   - the geocoding stage (scripts/check-geocode-status.ts, second        *)
(*     script of the file) turns the address into coordinates.             *)
(* The storage side is the SQL of supabase/migrations.                     *)
(*                                                                         *)
(* Numbers in [0,1] (confidences, similarities) are kept as percentages.   *)
(***************************************************************************)
EXTENDS Integers, Sequences, FiniteSets, TLC

VARIABLES
    db,         \* asset_map.facilities: facility id -> row
    run,        \* one record per script invocation (process)
    resolved,   \* history: facility id -> the stages that persisted it as resolved
    probe       \* a call of the name functions of the matcher: inputs and results

vars == <<db, run, resolved, probe>>

----------------------------------------------------------------------------
(* Bounds and fixtures                                                     *)

NumFacilities == 2

\* A nullable value is NULL or Val(x).
NULL == <<>>

Val(x) == <<x>>

Facilities == 1 .. NumFacilities

\* Two invocations of the scripts, which may or may not overlap in time.
Runs == {"A", "B"}

\* The sequential specification uses one invocation at a time.
SeqRuns == {"A"}

Stages == {"sync", "geocode"}

\* Facility rows are created by the importer with a name and a country;
\* names are ordered as the ids are.
Country(f) == IF f % 2 = 1 THEN "Norway" ELSE "Sweden"

\* normalizedName !== facility.name (the normalized tier is attempted)
NormalizedDiffers(f) == f % 2 = 1

\* extractTokens(normalizedName).length (at most 4)
NumTokens(f) == IF f % 2 = 1 THEN 2 ELSE 1

\* tokens.length > 0 (the token tier is attempted)
HasTokens(f) == NumTokens(f) > 0

\* HubSpot companies the CRM may return.
Companies == {"h1", "h2", "h3"}

\* The companies a page of token-search results is made of when the scoring
\* of the token tier is looked at on its own
Candidates == Companies \cup {"h4", "h5"}

CompanyAddress(c) ==
    CASE c = "h1" -> "Storgata 5"
      [] c = "h2" -> "Kongens gate 1"
      [] c = "h4" -> "Torget 2"
      [] c = "h5" -> "Havnegata 3"
      [] OTHER    -> ""

CompanyCity(c) == IF c = "h1" THEN "Oslo" ELSE ""

CompanyZip(c) == IF c = "h1" THEN "0150" ELSE ""

\* similarity(normalizedName, companyNormalized) for the company, in percent
NameSimilarity(c) ==
    CASE c = "h1" -> 80
      [] c = "h2" -> 60
      [] c = "h4" -> 80
      [] c = "h5" -> 25
      [] OTHER    -> 90

\* tokenScore = overlap / Math.max(tokens.length, 1) for the company, in
\* percent: every token of the facility is found in the company's name
TokenScore(c) == 100

\* tokenScore * 0.4 + nameScore * 0.6 for the company, in percent (a whole
\* number for every company above)
CombinedScore(c) == (40 * TokenScore(c) + 60 * NameSimilarity(c)) \div 100

\* Coordinates a geocoder returns for a facility's address.
GeoLat == 59

GeoLon == 10

----------------------------------------------------------------------------
(* Program constants                                                       *)

SYNC_DEFAULT_LIMIT == 5000

GEOCODE_DEFAULT_LIMIT == 100

NORMALIZED_THRESHOLD == 65

\* (result.total || 0) < 100
TOKEN_TOTAL_CAP == 100

TOKEN_THRESHOLD == 55

EXACT_CONFIDENCE == 100

KV_POSTAL_MATCH == 95

KV_POSTAL_MISMATCH == 75

KV_FALLBACK == 60

HERE_DEFAULT_CONFIDENCE == 70

----------------------------------------------------------------------------
(* Storage: table and stored procedures                                    *)

\* A row as import_facilities leaves it: name and country only,
\* geocode_status 'pending'.
ImportedRow ==
    [hubspot_id |-> NULL, address |-> NULL, city |-> NULL, postal_code |-> NULL,
     latitude |-> NULL, longitude |-> NULL,
     geocode_status |-> "pending", geocode_confidence |-> NULL]

\* JavaScript `x || null`
OrNull(s) == IF s = "" THEN NULL ELSE Val(s)

Min(a, b) == IF a < b THEN a ELSE b

\* The first n elements of a sequence (SQL LIMIT)
Take(s, n) == SubSeq(s, 1, Min(n, Len(s)))

\* The members of S in increasing order of key (SQL ORDER BY); keys are distinct.
RECURSIVE OrderBy(_, _)
OrderBy(S, key) ==
    IF S = {} THEN <<>>
    ELSE LET first == CHOOSE x \in S : \A y \in S : key[x] <= key[y]
         IN  <<first>> \o OrderBy(S \ {first}, key)

\* ORDER BY f.name
NameKey == [f \in Facilities |-> f]

\* ORDER BY f.country, f.name ("Norway" < "Sweden")
CountryNameKey ==
    [f \in Facilities |->
        (IF Country(f) = "Norway" THEN 0 ELSE 1) * (NumFacilities + 1) + f]

\* asset_map_get_facilities_for_sync(p_limit, p_country)
asset_map_get_facilities_for_sync(d, p_limit, p_country) ==
    Take(OrderBy({f \in Facilities :
                    /\ d[f].address = NULL
                    /\ d[f].hubspot_id = NULL
                    /\ (p_country = NULL \/ Val(Country(f)) = p_country)},
                 NameKey),
         p_limit)

\* asset_map_get_facilities_for_geocoding(p_country, p_limit)
asset_map_get_facilities_for_geocoding(d, p_country, p_limit) ==
    Take(OrderBy({f \in Facilities :
                    /\ d[f].address # NULL
                    /\ d[f].latitude = NULL
                    /\ (p_country = NULL \/ Val(Country(f)) = p_country)},
                 CountryNameKey),
         p_limit)

\* Mutant: the column hubspot_id is not declared UNIQUE
HubspotIdFree(d, id, p_hubspot_id) == FALSE

\* hubspot_id TEXT UNIQUE: the update is rejected when another row holds the id.
HubspotIdTaken(d, id, p_hubspot_id) ==
    \E g \in Facilities : g # id /\ d[g].hubspot_id = p_hubspot_id

\* Mutant: the update also marks the facility as located by hand
asset_map_update_facility_from_hubspot_manual(d, id, p_hubspot_id, p_address, p_city, p_postal_code) ==
    [d EXCEPT ![id].hubspot_id = p_hubspot_id,
              ![id].address = p_address,
              ![id].city = p_city,
              ![id].postal_code = p_postal_code,
              ![id].geocode_status = "manual"]

\* asset_map_update_facility_from_hubspot
asset_map_update_facility_from_hubspot(d, id, p_hubspot_id, p_address, p_city, p_postal_code) ==
    [d EXCEPT ![id].hubspot_id = p_hubspot_id,
              ![id].address = p_address,
              ![id].city = p_city,
              ![id].postal_code = p_postal_code]

\* SQL COALESCE(a, b)
Coalesce(a, b) == IF a # NULL THEN a ELSE b

\* Mutant: the update overwrites the coordinates with the parameters, NULL
\* included
asset_map_update_facility_geocode_overwrite(d, id, p_latitude, p_longitude, p_status, p_confidence) ==
    [d EXCEPT ![id].latitude = p_latitude,
              ![id].longitude = p_longitude,
              ![id].geocode_status = p_status,
              ![id].geocode_confidence = p_confidence]

\* asset_map_update_facility_geocode (fix_geocode_rpc_null, which replaces
\* the function of add_geocoding_rpc): NULL coordinates keep the stored ones
asset_map_update_facility_geocode(d, id, p_latitude, p_longitude, p_status, p_confidence) ==
    [d EXCEPT ![id].latitude = Coalesce(p_latitude, d[id].latitude),
              ![id].longitude = Coalesce(p_longitude, d[id].longitude),
              ![id].geocode_status = p_status,
              ![id].geocode_confidence = p_confidence]

----------------------------------------------------------------------------
(* External providers: what one request may answer                         *)

\* A CRM search (doSearch) throws, or returns a list of companies.
ResultLists ==
    {<<>>} \cup {<<c>> : c \in Companies}
           \cup {<<c1, c2>> : c1 \in {"h2", "h3"}, c2 \in {"h1", "h2"}}

CrmResponses ==
    {[ok |-> FALSE, results |-> <<>>]} \cup {[ok |-> TRUE, results |-> l] : l \in ResultLists}

\* A token search throws, or returns a page of companies with the total
\* count of the companies that contain the token.
TokenResponses ==
    {[ok |-> FALSE, results |-> <<>>, total |-> 0]}
    \cup {[ok |-> TRUE, results |-> l, total |-> Len(l)] : l \in ResultLists}
    \cup {[ok |-> TRUE, results |-> l, total |-> TOKEN_TOTAL_CAP] : l \in ResultLists}

\* A Kartverket request throws, answers a non-OK status, or answers a list of
\* addresses of which only the first is read: none, one with the facility's
\* postal code, one with another postal code.
KartverketResponses == {"exception", "httperror", "empty", "postalmatch", "postalmismatch"}

\* A HERE request throws, answers a non-OK status, or answers items of which
\* only the first is read: none, one without scoring, one with a queryScore.
HereResponses == {"exception", "httperror", "empty", "unscored", "score0", "score90"}

IsTransient(resp) == resp \in {"exception", "httperror"}

----------------------------------------------------------------------------
(* Candidate matcher: searchHubSpotCompany, one tier per search            *)

NoMatch == [company |-> NULL, matchType |-> "none", confidence |-> 0]

HasAddress(c) == CompanyAddress(c) # ""

\* Mutant: the exact tier returns the first result, with or without address
ExactTierAnyAddress(resp) ==
    IF resp.ok /\ Len(resp.results) > 0
    THEN [company |-> Val(resp.results[1]), matchType |-> "exact",
          confidence |-> EXACT_CONFIDENCE]
    ELSE NoMatch

\* Exact tier: the first result, if it has an address
ExactTier(resp) ==
    IF resp.ok /\ Len(resp.results) > 0 /\ HasAddress(resp.results[1])
    THEN [company |-> Val(resp.results[1]), matchType |-> "exact",
          confidence |-> EXACT_CONFIDENCE]
    ELSE NoMatch

\* Normalized tier: the first result over the threshold that has an address
NormalizedAccepts(c) == NameSimilarity(c) > NORMALIZED_THRESHOLD /\ HasAddress(c)

\* The index of the first result the loop accepts, 0 if it accepts none
FirstAccepted(l) ==
    IF \E k \in 1 .. Len(l) : NormalizedAccepts(l[k])
    THEN CHOOSE k \in 1 .. Len(l) :
            NormalizedAccepts(l[k]) /\ \A j \in 1 .. (k - 1) : ~NormalizedAccepts(l[j])
    ELSE 0

NormalizedTier(resp) ==
    LET k == IF resp.ok THEN FirstAccepted(resp.results) ELSE 0
    IN  IF k > 0
        THEN [company |-> Val(resp.results[k]), matchType |-> "normalized",
              confidence |-> NameSimilarity(resp.results[k])]
        ELSE NoMatch

\* Mutant: a later result replaces the best with an equal score too
RECURSIVE BestMatchLatest(_, _, _)
BestMatchLatest(l, bestMatch, bestScore) ==
    IF l = <<>> THEN [bestMatch |-> bestMatch, bestScore |-> bestScore]
    ELSE LET c == Head(l)
         IN  IF HasAddress(c) /\ CombinedScore(c) >= bestScore
                /\ CombinedScore(c) > TOKEN_THRESHOLD
             THEN BestMatchLatest(Tail(l), Val(c), CombinedScore(c))
             ELSE BestMatchLatest(Tail(l), bestMatch, bestScore)

\* Token tier: the loop over the results that keeps the best score; a later
\* result replaces the best only with a strictly higher score
RECURSIVE BestMatch(_, _, _)
BestMatch(l, bestMatch, bestScore) ==
    IF l = <<>> THEN [bestMatch |-> bestMatch, bestScore |-> bestScore]
    ELSE LET c == Head(l)
         IN  IF HasAddress(c) /\ CombinedScore(c) > bestScore
                /\ CombinedScore(c) > TOKEN_THRESHOLD
             THEN BestMatch(Tail(l), Val(c), CombinedScore(c))
             ELSE BestMatch(Tail(l), bestMatch, bestScore)

TokenTier(resp) ==
    LET best == IF resp.ok THEN BestMatch(resp.results, NULL, 0)
                ELSE [bestMatch |-> NULL, bestScore |-> 0]
    IN  IF best.bestMatch # NULL
        THEN [company |-> best.bestMatch, matchType |-> "token",
              confidence |-> best.bestScore]
        ELSE NoMatch

\* The tier attempted after `tier` found nothing ("persist": none is left)
NextTier(f, tier) ==
    CASE tier = "exact" /\ NormalizedDiffers(f) -> "normalized"
      [] tier = "exact" /\ ~NormalizedDiffers(f) /\ HasTokens(f) -> "token"
      [] tier = "normalized" /\ HasTokens(f) -> "token"
      [] OTHER -> "persist"

----------------------------------------------------------------------------
(* Geocoding router: geocodeFacility, geocodeKartverket, geocodeHere       *)

GeocodeResult(confidence, provider) ==
    Val([latitude |-> GeoLat, longitude |-> GeoLon,
         confidence |-> confidence, provider |-> provider])

\* Mutant: every facility is sent to HERE
ProviderAlwaysHere(f) == "here"

\* geocodeFacility: Norway is sent to Kartverket, every other country to HERE
Provider(f) == IF Country(f) = "Norway" THEN "kartverket" ELSE "here"

\* geocodeKartverket, first request (address + postal code)
KartverketFirst(resp) ==
    CASE resp = "postalmatch"    -> GeocodeResult(KV_POSTAL_MATCH, "kartverket")
      [] resp = "postalmismatch" -> GeocodeResult(KV_POSTAL_MISMATCH, "kartverket")
      [] OTHER                   -> NULL

\* Mutant: the second request is also made after a non-OK answer
KartverketFallsBackOnError(resp) == resp \in {"empty", "httperror"}

\* The fallback request is made only after an OK answer without addresses.
KartverketFallsBack(resp) == resp = "empty"

\* Mutant: the fallback answer is rated as the first one is
KartverketFallbackByPostalCode(resp) ==
    CASE resp = "postalmatch"    -> GeocodeResult(KV_POSTAL_MATCH, "kartverket")
      [] resp = "postalmismatch" -> GeocodeResult(KV_POSTAL_MISMATCH, "kartverket")
      [] OTHER                   -> NULL

\* geocodeKartverket, fallback request (address + city)
KartverketFallback(resp) ==
    IF resp \in {"postalmatch", "postalmismatch"}
    THEN GeocodeResult(KV_FALLBACK, "kartverket")
    ELSE NULL

\* best.scoring?.queryScore of the first item, in percent (NULL: undefined)
QueryScore(resp) ==
    CASE resp = "score90" -> Val(90)
      [] resp = "score0"  -> Val(0)
      [] OTHER            -> NULL

\* best.scoring?.queryScore || 0.7: the default replaces every falsy score,
\* undefined and 0 alike
QueryScoreOrDefault(resp) ==
    IF QueryScore(resp) = NULL \/ QueryScore(resp)[1] = 0
    THEN HERE_DEFAULT_CONFIDENCE
    ELSE QueryScore(resp)[1]

\* geocodeHere, the request
HereRequest(resp) ==
    IF resp \in {"unscored", "score0", "score90"}
    THEN GeocodeResult(QueryScoreOrDefault(resp), "here")
    ELSE NULL

----------------------------------------------------------------------------
(* Resolution orchestrator: syncHubSpotAddresses and main                  *)

\* process.env of an invocation: which credentials are configured
\* (supabase: SUPABASE_URL and the service key)
FullEnv == [hubspot |-> TRUE, supabase |-> TRUE, here |-> TRUE]

\* The command line without options and the full environment
DefaultProfile == [dryRun |-> FALSE, limit |-> NULL, country |-> NULL, env |-> FullEnv]

\* The credential of the stage's own provider: HUBSPOT_API_KEY for the
\* matching script, HERE_API_KEY for the geocoding script (neither script
\* reads the other's)
WithoutProviderKey(stage) ==
    IF stage = "sync" THEN [DefaultProfile EXCEPT !.env.hubspot = FALSE]
    ELSE [DefaultProfile EXCEPT !.env.here = FALSE]

\* The invocations considered: the default one, and one departure from it at
\* a time (--dry-run, --limit 1, --country Norway, one credential missing)
Profiles(stage) ==
    {DefaultProfile,
     [DefaultProfile EXCEPT !.dryRun = TRUE],
     [DefaultProfile EXCEPT !.limit = Val(1)],
     [DefaultProfile EXCEPT !.country = Val("Norway")],
     [DefaultProfile EXCEPT !.env.supabase = FALSE],
     WithoutProviderKey(stage)}

\* The invocations considered when two of them overlap
OverlapProfiles == {DefaultProfile}

\* The countries of the facilities
Countries == {Country(f) : f \in Facilities}

\* stats of the matching script (byMatchType flattened; byCountry with the
\* entry of every country, created at zero) and success / failed of the
\* geocoding script
ZeroStats ==
    [processed |-> 0, matched |-> 0, updated |-> 0, failed |-> 0,
     exact |-> 0, normalized |-> 0, token |-> 0, none |-> 0,
     byCountry |-> [c \in Countries |-> [matched |-> 0, total |-> 0]],
     success |-> 0]

\* Mutant: the facility is counted, but not under its country
CountProcessedOnly(stats, f) == [stats EXCEPT !.processed = @ + 1]

\* stats.processed++; stats.byCountry[facility.country].total++
CountProcessed(stats, f) ==
    [stats EXCEPT !.processed = @ + 1, !.byCountry[Country(f)].total = @ + 1]

\* stats.matched++; stats.byCountry[facility.country].matched++
CountMatched(stats, f) ==
    [stats EXCEPT !.matched = @ + 1, !.byCountry[Country(f)].matched = @ + 1]

NoOutcomes == [f \in Facilities |-> "-"]

\* What is remembered of the invocation that ran before this one
NoPrior == [stage |-> "-", complete |-> FALSE, outcome |-> NoOutcomes]

IdleRun ==
    [pc |-> "idle", stage |-> "-", dryRun |-> FALSE, limit |-> NULL, country |-> NULL,
     env |-> FullEnv,
     facilities |-> <<>>, i |-> 1, phase |-> "-",
     match |-> NoMatch, geo |-> NULL,
     \* the token tier's loop: the index of the token to search next, and
     \* tokenResult
     tokenIdx |-> 1, tokenResult |-> NULL,
     stats |-> ZeroStats, reported |-> FALSE,
     \* history of the invocation, read by the properties only: the requests
     \* made for the current record, the geocoders they went to and what
     \* these answered, whether
     \* any request was made, whether the exact-name search of the current
     \* record returned a company with an address, the tiers tried for the
     \* current record and those whose search failed, the number of tokens
     \* searched and the token whose results were kept, whether an external
     \* call was made since the last sleep and whether a call of the current
     \* record was made in that situation, ...
     requests |-> 0, contacted |-> {}, answers |-> <<>>, exactHadAddress |-> FALSE,
     tried |-> <<>>, failedTiers |-> {},
     tokenTried |-> 0, tokenUsed |-> 0,
     unslept |-> FALSE, backToBack |-> FALSE,
     lookedUp |-> FALSE, updateCalls |-> 0, exceptions |-> 0,
     hitError |-> FALSE, errors |-> {}, failedWrites |-> {},
     outcome |-> NoOutcomes, dryBase |-> NULL,
     \* the facilities whose turn of the loop has begun, and those whose turn
     \* has ended, in the order of these events
     entered |-> <<>>, handled |-> <<>>,
     prior |-> NoPrior]

Finished == {"done", "exit1", "fetchfailed", "crashed"}

\* An invocation that went through every facility it could see, met no
\* provider error and wrote every outcome
Complete(rn) ==
    /\ rn.pc = "done"
    /\ ~rn.dryRun
    /\ rn.limit = NULL
    /\ rn.country = NULL
    /\ rn.env = FullEnv
    /\ rn.exceptions = 0
    /\ rn.errors = {}

\* Only a complete invocation is remembered.
PriorOf(rn) ==
    IF Complete(rn)
    THEN [stage |-> rn.stage, complete |-> TRUE, outcome |-> rn.outcome]
    ELSE NoPrior

\* Mutant: the environment is not validated
ConfigErrorNever(stage, env) == FALSE

\* Validate environment (sync-hubspot.ts); main of the geocoding script
\* only warns when HERE_API_KEY is missing
ConfigError(stage, env) ==
    stage = "sync" /\ (~env.hubspot \/ ~env.supabase)

\* The script starts: options parsed, environment read and validated
StartRun(prior, stage, p, d) ==
    [IdleRun EXCEPT
        !.pc = IF ConfigError(stage, p.env) THEN "exit1" ELSE "fetching",
        !.stage = stage, !.dryRun = p.dryRun, !.limit = p.limit, !.country = p.country,
        !.env = p.env,
        !.dryBase = IF p.dryRun THEN Val(d) ELSE NULL,
        !.prior = prior]

Startable(r) == run[r].pc \in {"idle"} \cup Finished

Start(r) ==
    /\ Startable(r)
    /\ \E stage \in Stages : \E p \in Profiles(stage) :
          run' = [run EXCEPT ![r] = StartRun(PriorOf(run[r]), stage, p, db)]
    /\ UNCHANGED <<db, resolved, probe>>

Active(r) == run[r].pc \in {"fetching", "processing"}

\* The stages an overlapping invocation runs: "A" is a matching or a
\* geocoding run at first and a geocoding run afterwards, "B" is a
\* geocoding run
OverlapStages(r) == IF r = "B" \/ run[r].pc # "idle" THEN {"geocode"} ELSE Stages

\* The same, for two invocations that overlap: "A" is started any number of
\* times, "B" once, while "A" is at work as a geocoding run.
StartOverlap(r) ==
    /\ Startable(r)
    /\ r = "B" => Active("A") /\ run["A"].stage = "geocode" /\ run["B"].pc = "idle"
    /\ \E stage \in OverlapStages(r), p \in OverlapProfiles :
          run' = [run EXCEPT ![r] = StartRun(NoPrior, stage, p, db)]
    /\ UNCHANGED <<db, resolved, probe>>

\* p_limit: limit || 5000 (matching), default 100 (geocoding)
LimitParam(rn) ==
    IF rn.limit # NULL THEN rn.limit[1]
    ELSE IF rn.stage = "sync" THEN SYNC_DEFAULT_LIMIT ELSE GEOCODE_DEFAULT_LIMIT

Backlog(rn, d) ==
    IF rn.stage = "sync"
    THEN asset_map_get_facilities_for_sync(d, LimitParam(rn), rn.country)
    ELSE asset_map_get_facilities_for_geocoding(d, rn.country, LimitParam(rn))

FirstPhase(stage) == IF stage = "sync" THEN "exact" ELSE "request"

\* The backlog fetch: the rpc throws (always without storage credentials), or
\* answers the backlog; an empty backlog ends the run at once
Fetch(r) ==
    /\ run[r].pc = "fetching"
    /\ \E ok \in BOOLEAN :
         LET rn == run[r]
             facilities == Backlog(rn, db)
         IN  run' = [run EXCEPT ![r] =
                 IF ~ok \/ ~rn.env.supabase
                 THEN [rn EXCEPT !.pc = "fetchfailed"]
                 ELSE IF Len(facilities) = 0
                 THEN [rn EXCEPT !.pc = "done"]
                 ELSE [rn EXCEPT !.pc = "processing", !.facilities = facilities,
                                 !.i = 1, !.phase = FirstPhase(rn.stage)]]
    /\ UNCHANGED <<db, resolved, probe>>

Current(rn) == rn.facilities[rn.i]

InRecord(r, stage, phase) ==
    /\ run[r].pc = "processing"
    /\ run[r].stage = stage
    /\ run[r].i <= Len(run[r].facilities)
    /\ run[r].phase = phase

\* An external call (a CRM search, a geocoder request) is issued
Call(rn) == [rn EXCEPT !.backToBack = @ \/ rn.unslept, !.unslept = TRUE]

\* await sleep(...)
Sleep(rn) == [rn EXCEPT !.unslept = FALSE]

\* The search answered, and one of the companies it returned has an address
AnyHasAddress(resp) ==
    resp.ok /\ \E k \in 1 .. Len(resp.results) : HasAddress(resp.results[k])

\* Mutant: a failed search ends the matcher
SearchStepStopsOnFailure(rn, tier, resp, found) ==
    [rn EXCEPT
        !.stats = IF tier = "exact" THEN CountProcessed(@, Current(rn)) ELSE @,
        !.entered = IF tier = "exact" THEN Append(@, Current(rn)) ELSE @,
        !.requests = @ + 1,
        !.lookedUp = TRUE,
        !.hitError = @ \/ ~resp.ok,
        !.exactHadAddress = IF tier = "exact" THEN AnyHasAddress(resp) ELSE @,
        !.tried = Append(@, tier),
        !.failedTiers = IF resp.ok THEN @ ELSE @ \cup {tier},
        !.match = found,
        !.phase = IF found.company # NULL \/ ~resp.ok THEN "persist"
                  ELSE NextTier(Current(rn), tier)]

\* One search of the matcher for the current facility: the tier's doSearch
\* and what the tier makes of the answer
SearchStep(rn, tier, resp, found) ==
    [rn EXCEPT
        !.tried = Append(@, tier),
        !.failedTiers = IF resp.ok THEN @ ELSE @ \cup {tier},
        !.stats = IF tier = "exact" THEN CountProcessed(@, Current(rn)) ELSE @,
        !.entered = IF tier = "exact" THEN Append(@, Current(rn)) ELSE @,
        !.requests = @ + 1,
        !.lookedUp = TRUE,
        !.hitError = @ \/ ~resp.ok,
        !.exactHadAddress = IF tier = "exact" THEN AnyHasAddress(resp) ELSE @,
        !.match = found,
        !.phase = IF found.company # NULL THEN "persist"
                  ELSE NextTier(Current(rn), tier)]

SearchExact(r) ==
    /\ InRecord(r, "sync", "exact")
    /\ \E resp \in CrmResponses :
         run' = [run EXCEPT ![r] = SearchStep(Call(run[r]), "exact", resp, ExactTier(resp))]
    /\ UNCHANGED <<db, resolved, probe>>

SearchNormalized(r) ==
    /\ InRecord(r, "sync", "normalized")
    /\ \E resp \in CrmResponses :
         run' = [run EXCEPT ![r] =
                    SearchStep(Call(run[r]), "normalized", resp, NormalizedTier(resp))]
    /\ UNCHANGED <<db, resolved, probe>>

\* One search of the token tier's loop, for the token of index tokenIdx: an
\* exception leaves the tier; the answer is kept if none was kept before or
\* if it reports under 100 companies; the loop ends on such an answer
\* (break) or, after sleep(100), with the last token, and the kept results
\* are scored
TokenSearch(rn, resp) ==
    LET f == Current(rn)
        idx == rn.tokenIdx
        searched == [rn EXCEPT !.requests = @ + 1,
                               !.lookedUp = TRUE,
                               !.tried = IF idx = 1 THEN Append(@, "token") ELSE @,
                               !.tokenTried = idx]
    IN  IF ~resp.ok
        THEN [searched EXCEPT !.hitError = TRUE,
                              !.failedTiers = @ \cup {"token"},
                              !.match = NoMatch,
                              !.tokenResult = NULL,
                              !.phase = "persist"]
        ELSE LET keep == rn.tokenResult = NULL \/ resp.total < TOKEN_TOTAL_CAP
                 tokenResult == IF keep THEN Val(resp.results) ELSE rn.tokenResult
                 searchToken == IF keep THEN idx ELSE rn.tokenUsed
             IN  IF resp.total < TOKEN_TOTAL_CAP \/ idx = NumTokens(f)
                 THEN [searched EXCEPT
                          !.unslept = resp.total < TOKEN_TOTAL_CAP,
                          !.tokenUsed = searchToken,
                          !.tokenResult = NULL,
                          !.match = TokenTier([ok |-> TRUE, results |-> tokenResult[1]]),
                          !.phase = "persist"]
                 ELSE [searched EXCEPT
                          !.unslept = FALSE,
                          !.tokenUsed = searchToken,
                          !.tokenResult = tokenResult,
                          !.tokenIdx = idx + 1]

SearchToken(r) ==
    /\ InRecord(r, "sync", "token")
    /\ \E resp \in TokenResponses :
         run' = [run EXCEPT ![r] = TokenSearch(Call(run[r]), resp)]
    /\ UNCHANGED <<db, resolved, probe>>

\* The current record is finished: on to the next one
NextRecord(rn, outcome) ==
    [rn EXCEPT
        !.i = @ + 1,
        !.phase = FirstPhase(rn.stage),
        !.match = NoMatch,
        !.geo = NULL,
        !.requests = 0,
        !.contacted = {},
        !.answers = <<>>,
        !.exactHadAddress = FALSE,
        !.tried = <<>>,
        !.failedTiers = {},
        !.tokenTried = 0,
        !.tokenUsed = 0,
        !.backToBack = FALSE,
        !.tokenIdx = 1,
        !.tokenResult = NULL,
        !.errors = IF rn.hitError THEN @ \cup {Current(rn)} ELSE @,
        !.hitError = FALSE,
        !.handled = Append(@, Current(rn)),
        !.outcome[Current(rn)] = outcome]

\* Mutant: the dry-run flag is not consulted
WritesAlways(rn) == TRUE

\* if (!options.dryRun) / if (!dryRun): whether outcomes are written
Writes(rn) == ~rn.dryRun

\* updateFacility(facility, company): the parameters of the rpc
UpdateFromCompany(d, f, c) ==
    asset_map_update_facility_from_hubspot(
        d, f, Val(c), OrNull(CompanyAddress(c)), OrNull(CompanyCity(c)), OrNull(CompanyZip(c)))

\* What the orchestrator does with the matcher's result: count it, write the
\* match unless this is a dry run, sleep; an exception of the write is caught
\* (past the sleep), counted as failed, and the loop goes on
SyncPersist(r) ==
    /\ InRecord(r, "sync", "persist")
    /\ \E ok \in BOOLEAN :
         LET rn == run[r]
             f == Current(rn)
             result == rn.match
             counted == [rn EXCEPT !.stats[result.matchType] = @ + 1]
         IN  IF result.company = NULL
             THEN /\ run' = [run EXCEPT ![r] = NextRecord(Sleep(counted), "none")]
                  /\ UNCHANGED <<db, resolved, probe>>
             ELSE LET c == result.company[1]
                      matched == [counted EXCEPT !.stats = CountMatched(@, f)]
                      called == [matched EXCEPT !.updateCalls = @ + 1]
                  IN  IF ~Writes(rn)
                      THEN /\ run' = [run EXCEPT ![r] = NextRecord(Sleep(matched), c)]
                           /\ UNCHANGED <<db, resolved, probe>>
                      ELSE IF ~ok \/ HubspotIdTaken(db, f, Val(c))
                      THEN /\ run' = [run EXCEPT ![r] =
                                  NextRecord([called EXCEPT !.stats.failed = @ + 1,
                                                            !.exceptions = @ + 1,
                                                            !.failedWrites = @ \cup {f}], c)]
                           /\ UNCHANGED <<db, resolved, probe>>
                      ELSE /\ run' = [run EXCEPT ![r] =
                                  NextRecord(Sleep([called EXCEPT !.stats.updated = @ + 1]), c)]
                           /\ db' = UpdateFromCompany(db, f, c)
                           /\ resolved' = [resolved EXCEPT ![f] = @ \cup {"sync"}]
                           /\ UNCHANGED probe

\* Mutant: geocodeHere does not look at its key
HereKeyIgnored(rn) == FALSE

\* if (!HERE_API_KEY) of geocodeHere
HereKeyMissing(rn) == ~rn.env.here

\* geocodeFacility up to the answer of its first request; geocodeHere
\* returns at once, without a request, when HERE_API_KEY is not set
GeocodeRequest(r) ==
    /\ InRecord(r, "geocode", "request")
    /\ LET rn == run[r]
           f == Current(rn)
       IN  IF Provider(f) = "kartverket"
           THEN \E resp \in KartverketResponses :
                  run' = [run EXCEPT ![r] =
                      [Call(rn) EXCEPT !.requests = @ + 1,
                                 !.entered = Append(@, f),
                                 !.contacted = @ \cup {Provider(f)},
                                 !.answers = Append(@, resp),
                                 !.lookedUp = TRUE,
                                 !.hitError = IsTransient(resp),
                                 !.geo = KartverketFirst(resp),
                                 !.phase = IF KartverketFallsBack(resp)
                                           THEN "fallback" ELSE "persist"]]
           ELSE IF HereKeyMissing(rn)
           THEN run' = [run EXCEPT ![r] =
                    [rn EXCEPT !.entered = Append(@, f), !.geo = NULL, !.phase = "persist"]]
           ELSE \E resp \in HereResponses :
                  run' = [run EXCEPT ![r] =
                      [Call(rn) EXCEPT !.requests = @ + 1,
                                 !.entered = Append(@, f),
                                 !.contacted = @ \cup {Provider(f)},
                                 !.answers = Append(@, resp),
                                 !.lookedUp = TRUE,
                                 !.hitError = IsTransient(resp),
                                 !.geo = HereRequest(resp),
                                 !.phase = "persist"]]
    /\ UNCHANGED <<db, resolved, probe>>

\* geocodeKartverket, the fallback request and its answer
GeocodeFallback(r) ==
    /\ InRecord(r, "geocode", "fallback")
    /\ \E resp \in KartverketResponses :
         run' = [run EXCEPT ![r] =
             [Call(run[r]) EXCEPT !.requests = @ + 1,
                            !.contacted = @ \cup {"kartverket"},
                            !.answers = Append(@, resp),
                            !.lookedUp = TRUE,
                            !.hitError = IsTransient(resp),
                            !.geo = KartverketFallback(resp),
                            !.phase = "persist"]]
    /\ UNCHANGED <<db, resolved, probe>>

\* updateFacilityGeocode(facility.id, result)
UpdateGeocode(d, f, result) ==
    asset_map_update_facility_geocode(
        d, f, Val(result.latitude), Val(result.longitude), "success",
        Val(result.confidence))

\* markFacilityFailed(facility.id)
MarkFailed(d, f) == asset_map_update_facility_geocode(d, f, NULL, NULL, "failed", NULL)

\* What main does with the router's result: write it unless this is a dry
\* run, count it, sleep; an exception of the write is not caught in the loop
\* and ends main
GeocodePersist(r) ==
    /\ InRecord(r, "geocode", "persist")
    /\ \E ok \in BOOLEAN :
         LET rn == run[r]
             f == Current(rn)
             result == rn.geo
             called == IF Writes(rn) THEN [rn EXCEPT !.updateCalls = @ + 1] ELSE rn
         IN  IF Writes(rn) /\ ~ok
             THEN /\ run' = [run EXCEPT ![r] =
                         [called EXCEPT !.pc = "crashed", !.exceptions = @ + 1,
                                        !.failedWrites = @ \cup {f}]]
                  /\ UNCHANGED <<db, resolved, probe>>
             ELSE IF result # NULL
             THEN /\ run' = [run EXCEPT ![r] =
                         NextRecord(Sleep([called EXCEPT !.stats.success = @ + 1]), "ok")]
                  /\ db' = IF Writes(rn) THEN UpdateGeocode(db, f, result[1]) ELSE db
                  /\ resolved' = IF Writes(rn)
                                 THEN [resolved EXCEPT ![f] = @ \cup {"geocode"}]
                                 ELSE resolved
                  /\ UNCHANGED probe
             ELSE /\ run' = [run EXCEPT ![r] =
                         NextRecord(Sleep([called EXCEPT !.stats.failed = @ + 1]), "none")]
                  /\ db' = IF Writes(rn) THEN MarkFailed(db, f) ELSE db
                  /\ UNCHANGED <<resolved, probe>>

\* After the last record: the final summary
Report(r) ==
    /\ run[r].pc = "processing"
    /\ run[r].i > Len(run[r].facilities)
    /\ run' = [run EXCEPT ![r] = [run[r] EXCEPT !.pc = "done", !.reported = TRUE]]
    /\ UNCHANGED <<db, resolved, probe>>

----------------------------------------------------------------------------
(* Name functions of the matcher: normalizeName and similarity             *)
(*                                                                         *)
(* A name is the sequence of its words, written with single spaces; words  *)
(* are compared without regard to case (every regular expression of        *)
(* normalizeName has the i flag) and Words holds one spelling of each.     *)

MaxWords == 4

Words == {"Alvim", "Borettslag", "-", "all", "Sameiet", "Borettslaget", "II"}

Names == UNION {[1 .. n -> Words] : n \in 1 .. MaxWords}

NameCountries == {"Norway", "Sweden"}

\* HOUSING_PATTERNS[country] || HOUSING_PATTERNS.Norway, each affix as its
\* words.  The Swedish affixes with letters outside ASCII are left out: no
\* word of Words is one of theirs.
HOUSING_PATTERNS(country) ==
    CASE country = "Sweden" ->
           [prefixes |-> << <<"BRF">>, <<"Brf">> >>,
            suffixes |-> << <<"i", "Stockholm">>, <<"i", "Uppsala">> >>]
      [] country = "Denmark" ->
           [prefixes |-> << <<"Andelsboligforening">>, <<"A/B">>,
                            <<"Ejerforening">>, <<"E/F">> >>,
            suffixes |-> << <<"Andelsboligforening">>, <<"Ejerforening">> >>]
      [] OTHER ->
           [prefixes |-> << <<"Sameiet">>, <<"Borettslaget">>, <<"Boligsameiet">>,
                            <<"AL">>, <<"AS">>, <<"Andelslaget">> >>,
            suffixes |-> << <<"Borettslag">>, <<"Sameie">>, <<"Boligsameie">>,
                            <<"Garasjelag">>, <<"Garasjesameie">>, <<"SA">>,
                            <<"AS">> >>]

\* normalized.replace(/^prefix\s+/i, ""): the prefix, followed by a space
RemovePrefix(ws, prefix) ==
    IF Len(ws) > Len(prefix) /\ SubSeq(ws, 1, Len(prefix)) = prefix
    THEN SubSeq(ws, Len(prefix) + 1, Len(ws))
    ELSE ws

\* The last n words are removed
DropLast(ws, n) == SubSeq(ws, 1, Len(ws) - n)

\* normalized.replace(/\s+suffix$/i, ""): the suffix, preceded by a space
RemoveSuffix(ws, suffix) ==
    IF Len(ws) > Len(suffix)
       /\ SubSeq(ws, Len(ws) - Len(suffix) + 1, Len(ws)) = suffix
    THEN DropLast(ws, Len(suffix))
    ELSE ws

\* for (const prefix of patterns.prefixes): each prefix once, in list order
RECURSIVE RemovePrefixes(_, _)
RemovePrefixes(ws, prefixes) ==
    IF prefixes = <<>> THEN ws
    ELSE RemovePrefixes(RemovePrefix(ws, Head(prefixes)), Tail(prefixes))

\* for (const suffix of patterns.suffixes): each suffix once, in list order
RECURSIVE RemoveSuffixes(_, _)
RemoveSuffixes(ws, suffixes) ==
    IF suffixes = <<>> THEN ws
    ELSE RemoveSuffixes(RemoveSuffix(ws, Head(suffixes)), Tail(suffixes))

RomanNumerals == {"I", "II", "III", "IV", "V", "1", "2", "3", "4", "5"}

VendorSuffixes == {"Zaptec", "Easee", "laddboxar", "all"}

CitySuffixes ==
    {"Stockholm", "Uppsala", "Sundbyberg", "Lund", "Karlstad", "Bromma", "Vaxholm"}

\* /\s+(I|II|III|IV|V|1|2|3|4|5)\s*$/i
RemoveRomanNumeral(ws) ==
    IF Len(ws) >= 2 /\ ws[Len(ws)] \in RomanNumerals THEN DropLast(ws, 1) ELSE ws

\* A hyphen followed by a vendor word
VendorAt(ws, k) == k < Len(ws) /\ ws[k] = "-" /\ ws[k + 1] \in VendorSuffixes

\* /\s*-\s*(Zaptec|Easee|laddboxar|all).*$/i: from the first such hyphen on
RemoveVendorSuffix(ws) ==
    IF \E k \in 1 .. Len(ws) : VendorAt(ws, k)
    THEN LET k == CHOOSE k \in 1 .. Len(ws) :
                     VendorAt(ws, k) /\ \A j \in 1 .. (k - 1) : ~VendorAt(ws, j)
         IN  SubSeq(ws, 1, k - 1)
    ELSE ws

\* /\s*-\s*all\s*$/i
RemoveDashAll(ws) ==
    IF Len(ws) >= 2 /\ ws[Len(ws) - 1] = "-" /\ ws[Len(ws)] = "all"
    THEN DropLast(ws, 2)
    ELSE ws

\* /\s+A\/L\s*$/i and /\s+\(fellesplass\)\s*$/i
RemoveLastWord(ws, word) ==
    IF Len(ws) >= 2 /\ ws[Len(ws)] = word THEN DropLast(ws, 1) ELSE ws

\* /\s+i\s+(Stockholm|...)\s*$/i
RemoveCitySuffix(ws) ==
    IF Len(ws) >= 3 /\ ws[Len(ws) - 1] = "i" /\ ws[Len(ws)] \in CitySuffixes
    THEN DropLast(ws, 2)
    ELSE ws

\* normalizeName(name, country).  The last three replacements (punctuation,
\* runs of spaces, trim) leave a sequence of words without punctuation as
\* it is.
normalizeName(name, country) ==
    LET patterns == HOUSING_PATTERNS(country)
        unprefixed == RemovePrefixes(name, patterns.prefixes)
        unsuffixed == RemoveSuffixes(unprefixed, patterns.suffixes)
    IN  RemoveCitySuffix(
          RemoveLastWord(
            RemoveLastWord(
              RemoveDashAll(RemoveVendorSuffix(RemoveRomanNumeral(unsuffixed))),
              "A/L"),
            "(fellesplass)"))

\* word.toLowerCase(), as its characters
LowerChars(word) ==
    CASE word = "Alvim"        -> <<"a", "l", "v", "i", "m">>
      [] word = "Borettslag"   -> <<"b", "o", "r", "e", "t", "t", "s", "l", "a", "g">>
      [] word = "Borettslaget" -> <<"b", "o", "r", "e", "t", "t", "s", "l", "a", "g", "e", "t">>
      [] word = "Sameiet"      -> <<"s", "a", "m", "e", "i", "e", "t">>
      [] word = "all"          -> <<"a", "l", "l">>
      [] word = "II"           -> <<"i", "i">>
      [] OTHER                 -> <<word>>

\* name.toLowerCase(), as its characters: the words joined by single spaces
RECURSIVE LowerCase(_)
LowerCase(ws) ==
    IF ws = <<>> THEN <<>>
    ELSE IF Len(ws) = 1 THEN LowerChars(ws[1])
    ELSE LowerChars(ws[1]) \o <<" ">> \o LowerCase(Tail(ws))

\* similarity: one turn of the loop over j, in turn i of the loop over i.
\* The array costs is a sequence, costs[j] its element j + 1; an assignment
\* to costs[j] when the array has j elements appends.
SimilarityTurn(shorter, longer, state, i) ==
    LET j == state.j
    IN  IF i = 0
        THEN [state EXCEPT !.costs = Append(@, j), !.j = j + 1]
        ELSE IF j > 0
        THEN [costs |-> [state.costs EXCEPT ![j] = state.lastValue],
              lastValue |->
                  IF shorter[i] # longer[j]
                  THEN Min(Min(state.costs[j], state.lastValue), state.costs[j + 1]) + 1
                  ELSE state.costs[j],
              j |-> j + 1]
        ELSE [state EXCEPT !.j = j + 1]

\* similarity: for (let j = 0; j <= longer.length; j++)
RECURSIVE SimilarityInner(_, _, _, _)
SimilarityInner(shorter, longer, state, i) ==
    IF state.j > Len(longer) THEN state
    ELSE SimilarityInner(shorter, longer, SimilarityTurn(shorter, longer, state, i), i)

\* similarity: for (let i = 0; i <= shorter.length; i++)
RECURSIVE SimilarityOuter(_, _, _)
SimilarityOuter(shorter, longer, state) ==
    IF state.i > Len(shorter) THEN state.costs
    ELSE LET row == SimilarityInner(
                        shorter, longer,
                        [costs |-> state.costs, lastValue |-> state.i, j |-> 0],
                        state.i)
         IN  SimilarityOuter(
                 shorter, longer,
                 [costs |-> IF state.i > 0
                            THEN [row.costs EXCEPT ![Len(longer) + 1] = row.lastValue]
                            ELSE row.costs,
                  i |-> state.i + 1])

\* Mutant: the first string is taken as the longer one whatever the lengths
similarityUnordered(a, b) ==
    IF Len(a) = 0 THEN [num |-> 1, den |-> 1]
    ELSE LET costs == SimilarityOuter(b, a, [costs |-> <<>>, i |-> 0])
         IN  [num |-> Len(a) - costs[Len(a) + 1], den |-> Len(a)]

\* similarity(a, b), as the fraction num / den
similarity(a, b) ==
    LET longer == IF Len(a) > Len(b) THEN a ELSE b
        shorter == IF Len(a) > Len(b) THEN b ELSE a
    IN  IF Len(longer) = 0 THEN [num |-> 1, den |-> 1]
        ELSE LET costs == SimilarityOuter(shorter, longer, [costs |-> <<>>, i |-> 0])
             IN  [num |-> Len(longer) - costs[Len(longer) + 1], den |-> Len(longer)]

\* The name of the company the contains-token search returns
CandidateName == <<"Alvim", "Borettslag">>

\* The normalized tier's similarity of a facility's normalized name and the
\* candidate
CandidateSimilarity(normalizedName, country) ==
    similarity(LowerCase(normalizedName), LowerCase(normalizeName(CandidateName, country)))

\* sim > 0.65 (the candidate has an address)
SimilarityAccepted(sim) == sim.num * 100 > NORMALIZED_THRESHOLD * sim.den

\* A call to look at: the name and the country of a facility
ProbeInputs ==
    {[step |-> "input", name |-> n, country |-> c,
      normalizedName |-> <<>>, again |-> <<>>, sim |-> [num |-> 0, den |-> 1]] :
        n \in Names, c \in NameCountries}

\* const normalizedName = normalizeName(facility.name, facility.country)
Normalize ==
    /\ probe.step = "input"
    /\ probe' = [probe EXCEPT !.step = "normalized",
                              !.normalizedName = normalizeName(probe.name, probe.country)]
    /\ UNCHANGED <<db, run, resolved>>

\* The normalized name is normalized once more
NormalizeAgain ==
    /\ probe.step = "normalized"
    /\ probe' = [probe EXCEPT !.step = "renormalized",
                              !.again = normalizeName(probe.normalizedName, probe.country)]
    /\ UNCHANGED <<db, run, resolved>>

\* The normalized tier scores the candidate
Score ==
    /\ probe.step = "renormalized"
    /\ probe' = [probe EXCEPT !.step = "scored",
                              !.sim = CandidateSimilarity(probe.normalizedName, probe.country)]
    /\ UNCHANGED <<db, run, resolved>>

\* Strings of up to MaxChars characters, the empty string included
MaxChars == 3

Alphabet == {"a", "b"}

Strings == UNION {[1 .. n -> Alphabet] : n \in 0 .. MaxChars}

\* The edit distance of two strings: the least number of insertions,
\* deletions and substitutions of one character that turn one into the other
RECURSIVE EditDistance(_, _)
EditDistance(a, b) ==
    IF Len(a) = 0 THEN Len(b)
    ELSE IF Len(b) = 0 THEN Len(a)
    ELSE IF Head(a) = Head(b) THEN EditDistance(Tail(a), Tail(b))
    ELSE 1 + Min(EditDistance(Tail(a), Tail(b)),
                 Min(EditDistance(Tail(a), b), EditDistance(a, Tail(b))))

\* Two strings to compare
PairInputs ==
    {[step |-> "pair", a |-> a, b |-> b,
      ab |-> [num |-> 0, den |-> 1], ba |-> [num |-> 0, den |-> 1],
      aa |-> [num |-> 0, den |-> 1]] : a \in Strings, b \in Strings}

\* similarity(a, b), similarity(b, a) and similarity(a, a) are called
Compare ==
    /\ probe.step = "pair"
    /\ probe' = [probe EXCEPT !.step = "compared",
                              !.ab = similarity(probe.a, probe.b),
                              !.ba = similarity(probe.b, probe.a),
                              !.aa = similarity(probe.a, probe.a)]
    /\ UNCHANGED <<db, run, resolved>>

\* Pages of up to MaxResults companies
MaxResults == 3

ResultPages == UNION {[1 .. n -> Candidates] : n \in 0 .. MaxResults}

\* A page of token-search results to score
PageInputs == {[step |-> "page", results |-> l, match |-> NoMatch] : l \in ResultPages}

\* The token tier scores the results and returns
ScorePage ==
    /\ probe.step = "page"
    /\ probe' = [probe EXCEPT !.step = "returned",
                              !.match = TokenTier([ok |-> TRUE, results |-> probe.results])]
    /\ UNCHANGED <<db, run, resolved>>

\* No call of the name functions is looked at
NoProbe == [step |-> "-"]

----------------------------------------------------------------------------
(* Specifications                                                          *)

Init ==
    /\ db = [f \in Facilities |-> ImportedRow]
    /\ run = [r \in Runs |-> IdleRun]
    /\ resolved = [f \in Facilities |-> {}]
    /\ probe = NoProbe

Step(r) ==
    \/ Fetch(r)
    \/ SearchExact(r)
    \/ SearchNormalized(r)
    \/ SearchToken(r)
    \/ SyncPersist(r)
    \/ GeocodeRequest(r)
    \/ GeocodeFallback(r)
    \/ GeocodePersist(r)
    \/ Report(r)

\* One invocation at a time, each started after the one before has ended
Next == \E r \in SeqRuns : Start(r) \/ Step(r)

Spec == Init /\ [][Next]_vars

\* A script that has been started keeps running: every step it can take is
\* taken in the end.  Nothing obliges anyone to start a script.
SpecLive == Init /\ [][Next]_vars /\ \A r \in SeqRuns : WF_vars(Step(r))

\* Two invocations that may overlap
NextOverlap == \E r \in Runs : StartOverlap(r) \/ Step(r)

SpecOverlap == Init /\ [][NextOverlap]_vars

\* The name functions, applied to every name of Names
InitNames ==
    /\ db = [f \in Facilities |-> ImportedRow]
    /\ run = [r \in Runs |-> IdleRun]
    /\ resolved = [f \in Facilities |-> {}]
    /\ probe \in ProbeInputs

NextNames == Normalize \/ NormalizeAgain \/ Score

SpecNames == InitNames /\ [][NextNames]_vars

\* similarity, applied to every pair of Strings
InitSimilarity ==
    /\ db = [f \in Facilities |-> ImportedRow]
    /\ run = [r \in Runs |-> IdleRun]
    /\ resolved = [f \in Facilities |-> {}]
    /\ probe \in PairInputs

NextSimilarity == Compare

SpecSimilarity == InitSimilarity /\ [][NextSimilarity]_vars

\* The scoring of the token tier, applied to every page of ResultPages
InitScoring ==
    /\ db = [f \in Facilities |-> ImportedRow]
    /\ run = [r \in Runs |-> IdleRun]
    /\ resolved = [f \in Facilities |-> {}]
    /\ probe \in PageInputs

NextScoring == ScorePage

SpecScoring == InitScoring /\ [][NextScoring]_vars

----------------------------------------------------------------------------
(* Properties                                                              *)

\* The facilities a stage's backlog query returns for given parameters
Returned(stage, d, limit, country) ==
    LET l == Backlog([stage |-> stage, limit |-> limit, country |-> country], d)
    IN  {l[k] : k \in 1 .. Len(l)}

\* The facilities some backlog query of the stage returns
InBacklog(stage, d) ==
    UNION {Returned(stage, d, limit, country) :
             limit \in {NULL, Val(1)}, country \in {NULL, Val("Norway"), Val("Sweden")}}

\* The facilities of the run's backlog with the given outcome
WithOutcome(rn, outcomes) == {f \in Facilities : rn.outcome[f] \in outcomes}

\* The run has ended, or has gone through every facility it fetched
Ended(rn) == rn.pc \in Finished

\* C1 as claimed: an exception raised while one facility is processed (a
\* failed storage update included) is counted in the failed counter, and a
\* run that fetched a backlog ends only after its last record.
C1_RecordFaultNeverStopsBatch ==
    \A r \in Runs :
        /\ run[r].stats.failed >= run[r].exceptions
        /\ (Ended(run[r]) /\ run[r].facilities # <<>>)
              => run[r].i > Len(run[r].facilities)

\* C2 as claimed: after a non-dry matching run got "no match" for a
\* facility, the matching backlog query does not return that facility.
C2_NoMatchIsMarked ==
    \A r \in Runs :
        (run[r].stage = "sync" /\ ~run[r].dryRun)
            => \A f \in WithOutcome(run[r], {"none"}) : f \notin InBacklog("sync", db)

\* C3 as claimed: a facility stored with geocode status failed is not
\* returned by the geocoding backlog query.
C3_FailedIsNotReturned ==
    \A f \in Facilities :
        db[f].geocode_status = "failed" => f \notin InBacklog("geocode", db)

\* The run repeats the complete run of the same stage that ended right
\* before it, and every answer it got so far is the answer that run got
RepeatsPrior(rn) ==
    /\ rn.prior.complete
    /\ rn.prior.stage = rn.stage
    /\ rn.limit = NULL
    /\ rn.country = NULL
    /\ rn.env = FullEnv
    /\ rn.exceptions = 0
    /\ rn.errors = {}
    /\ \A f \in Facilities : rn.outcome[f] # "-" => rn.outcome[f] = rn.prior.outcome[f]

\* C4 as claimed: the second of two runs of a stage in succession, with the
\* same answers of the providers, makes no storage update call.
C4_SecondRunUpdatesNothing ==
    \A r \in Runs : RepeatsPrior(run[r]) => run[r].updateCalls = 0

\* C5: a facility that a run persisted as resolved (a match with its address
\* for the matching stage, status success with coordinates for the
\* geocoding stage) is not returned by that stage's backlog query, whatever
\* the query's parameters, in any later state.
C5_ResolvedNeverReturned ==
    \A f \in Facilities : \A stage \in resolved[f] : f \notin InBacklog(stage, db)

\* C5, its case: a facility resolved by both stages, whose success was
\* followed by the "no result" write of an overlapping run
C5_Witness ==
    \E f \in Facilities :
        /\ resolved[f] = {"sync", "geocode"}
        /\ db[f].geocode_status = "failed"

\* C6 as claimed: a facility has coordinates exactly if its geocode status is
\* success or manual, and a failed facility has none.
C6_CoordinatesIffResolved ==
    \A f \in Facilities :
        /\ (db[f].latitude # NULL /\ db[f].longitude # NULL)
              <=> db[f].geocode_status \in {"success", "manual"}
        /\ db[f].geocode_status = "failed"
              => (db[f].latitude = NULL /\ db[f].longitude = NULL)

\* The records of the run whose processing has begun
Entered(rn) == (rn.i - 1) + (IF rn.phase \in {"normalized", "token", "persist"} THEN 1 ELSE 0)

\* C7: a dry run makes no storage update call and leaves the table as it
\* found it, its updated counter stays 0, and the lookups are made and
\* counted all the same: processed and matched (matching), success and
\* failed (geocoding) follow the records gone through.
C7_DryRunWritesNothing ==
    \A r \in Runs :
        run[r].dryRun =>
            /\ run[r].updateCalls = 0
            /\ db = run[r].dryBase[1]
            /\ run[r].stats.updated = 0
            /\ run[r].stage = "sync" =>
                  /\ run[r].stats.processed = Entered(run[r])
                  /\ run[r].stats.matched = Cardinality(WithOutcome(run[r], Companies))
                  /\ run[r].phase \in {"normalized", "token", "persist"}
                        => run[r].requests >= 1
            /\ run[r].stage = "geocode" =>
                  /\ run[r].stats.success = Cardinality(WithOutcome(run[r], {"ok"}))
                  /\ run[r].stats.failed = Cardinality(WithOutcome(run[r], {"none"}))
                  /\ run[r].stats.success + run[r].stats.failed = run[r].i - 1

\* C7, its case: a dry matching run that ended after finding a match
C7_Witness ==
    \E r \in Runs :
        /\ run[r].dryRun
        /\ run[r].pc = "done"
        /\ run[r].stage = "sync"
        /\ run[r].stats.matched > 0

\* C8 as claimed: a failed storage update is counted in the failed counter
\* (which, in the geocoding stage, also counts the records without result),
\* and the facility is still returned by the stage's backlog query.
C8_FailedWriteCountedAndRetried ==
    \A r \in Runs :
        /\ run[r].stats.failed =
              run[r].exceptions
              + (IF run[r].stage = "geocode"
                 THEN Cardinality(WithOutcome(run[r], {"none"})) ELSE 0)
        /\ \A f \in run[r].failedWrites : f \in Returned(run[r].stage, db, NULL, NULL)

\* What a run reports of failures: its failed counter, with the matching
\* stage's "No Match" count
FailureStat(rn) == rn.stats.failed + rn.stats.none

\* C9 as claimed: a record whose lookup met a transient provider error ends
\* as "no result", and each such record is counted in the failure figures.
C9_TransientErrorCounted ==
    \A r \in Runs :
        /\ \A f \in run[r].errors : run[r].outcome[f] = "none"
        /\ FailureStat(run[r]) >= Cardinality(run[r].errors)

\* A credential the stage cannot work without is not configured: the storage
\* credentials, and for the matching stage the CRM key.  (HERE_API_KEY is
\* not one of them: without it the commercial path answers "no result" and
\* the run goes on.)
MissingCredential(rn) ==
    \/ ~rn.env.supabase
    \/ rn.stage = "sync" /\ ~rn.env.hubspot

C11_NoKeyNoRequestMarkedFailed ==
    \A r \in Runs :
        (run[r].stage = "geocode" /\ ~run[r].env.here) =>
            /\ (InRecord(r, "geocode", "persist") /\ Provider(Current(run[r])) = "here")
                  => (run[r].requests = 0 /\ run[r].geo = NULL)
            /\ \A f \in Facilities :
                  (Provider(f) = "here" /\ run[r].outcome[f] # "-") =>
                      /\ run[r].outcome[f] = "none"
                      /\ ~run[r].dryRun =>
                            /\ db[f].geocode_status = "failed"
                            /\ db[f].latitude = NULL
                            /\ db[f].longitude = NULL

\* C11, its case: a run without the key has gone past a facility routed to
\* HERE
C11_Witness ==
    \E r \in Runs : \E f \in Facilities :
        /\ run[r].stage = "geocode"
        /\ ~run[r].env.here
        /\ ~run[r].dryRun
        /\ Provider(f) = "here"
        /\ run[r].outcome[f] = "none"
        /\ db[f].geocode_status = "failed"

\* C12: the requests made for a facility of Norway go to Kartverket only,
\* the fallback request included, and those made for a facility of any
\* other country go to HERE only.
C12_OneProviderPerFacility ==
    \A r \in Runs :
        (run[r].pc = "processing" /\ run[r].stage = "geocode"
            /\ run[r].i <= Len(run[r].facilities)) =>
            IF Country(Current(run[r])) = "Norway"
            THEN run[r].contacted \subseteq {"kartverket"}
            ELSE run[r].contacted \subseteq {"here"}

\* C12, its case: a facility of Norway after its fallback request, while
\* the HERE key is configured
C12_Witness ==
    \E r \in Runs :
        /\ InRecord(r, "geocode", "persist")
        /\ Country(Current(run[r])) = "Norway"
        /\ run[r].env.here
        /\ run[r].requests = 2
        /\ run[r].contacted = {"kartverket"}

\* C13 as claimed: when the exact-name search of a facility returned at least
\* one company with an address, the matcher's result is of tier exact with
\* confidence 1.0.
C13_ExactNameWithAddressIsExact ==
    \A r \in Runs :
        (run[r].pc = "processing" /\ run[r].stage = "sync"
            /\ run[r].phase # "exact" /\ run[r].exactHadAddress) =>
            /\ run[r].match.matchType = "exact"
            /\ run[r].match.confidence = EXACT_CONFIDENCE

\* The tiers searchHubSpotCompany attempts for a facility when none finds a
\* match, in order
ApplicableTiers(f) ==
    <<"exact">> \o (IF NormalizedDiffers(f) THEN <<"normalized">> ELSE <<>>)
                \o (IF HasTokens(f) THEN <<"token">> ELSE <<>>)

\* C14: the tiers tried for a record are the first of its applicable tiers,
\* in order; a tier whose search failed found nothing; a record whose matcher
\* ends without a match had every applicable tier tried, failed searches or
\* not; and the orchestrator's failed counter counts the failed writes only,
\* so no search failure reaches its catch.
C14_TierFailureFallsThrough ==
    \A r \in Runs :
        (run[r].pc = "processing" /\ run[r].stage = "sync"
            /\ run[r].i <= Len(run[r].facilities)) =>
            LET rn == run[r]
                tiers == ApplicableTiers(Current(rn))
                n == Len(rn.tried)
            IN  /\ n <= Len(tiers)
                /\ rn.tried = SubSeq(tiers, 1, n)
                /\ (n > 0 /\ rn.tried[n] \in rn.failedTiers) => rn.match = NoMatch
                /\ (rn.phase = "persist" /\ rn.match = NoMatch) => rn.tried = tiers
                /\ rn.phase # "persist" =>
                      \/ n < Len(tiers) /\ rn.phase = tiers[n + 1]
                      \/ rn.phase = "token" /\ rn.tokenIdx > 1 /\ rn.tried = tiers
                /\ rn.stats.failed = Cardinality(rn.failedWrites)

\* C14, its case: the exact and the normalized searches failed and the token
\* tier found the match
C14_Witness ==
    \E r \in Runs :
        /\ InRecord(r, "sync", "persist")
        /\ run[r].failedTiers = {"exact", "normalized"}
        /\ run[r].match.matchType = "token"

\* C15 as claimed: when the token tier scores candidates, they are the
\* results of the last token searched.
C15_LastTokenResultsScored ==
    \A r \in Runs :
        (InRecord(r, "sync", "persist") /\ run[r].tokenTried > 0
            /\ "token" \notin run[r].failedTiers) =>
            run[r].tokenUsed = run[r].tokenTried

\* The answer has a first address
Found(resp) == resp \in {"postalmatch", "postalmismatch"}

\* The confidence of a geocoding result, NULL for "no result"
ConfidenceOf(geo) == IF geo = NULL THEN NULL ELSE Val(geo[1].confidence)

\* C16: for a facility of Norway whose lookup is over, the result follows
\* the answers: a first answer with an address of the facility's postal code
\* gives 0.95, with another postal code 0.75; an empty first answer is
\* followed by the second query, whose address gives 0.60 whatever its
\* postal code, and whose empty answer gives "no result".
C16_KartverketConfidence ==
    \A r \in Runs :
        (InRecord(r, "geocode", "persist") /\ Provider(Current(run[r])) = "kartverket") =>
            LET a == run[r].answers
                c == ConfidenceOf(run[r].geo)
            IN  /\ Len(a) \in {1, 2}
                /\ a[1] = "postalmatch" => (Len(a) = 1 /\ c = Val(KV_POSTAL_MATCH))
                /\ a[1] = "postalmismatch" => (Len(a) = 1 /\ c = Val(KV_POSTAL_MISMATCH))
                /\ a[1] = "empty" =>
                      /\ Len(a) = 2
                      /\ Found(a[2]) => c = Val(KV_FALLBACK)
                      /\ a[2] = "empty" => c = NULL
                /\ c # NULL => run[r].geo[1].provider = "kartverket"

\* C16, its case: the first query was empty and the second found an address
\* of the facility's postal code
C16_Witness ==
    \E r \in Runs :
        /\ InRecord(r, "geocode", "persist")
        /\ run[r].answers = <<"empty", "postalmatch">>
        /\ ConfidenceOf(run[r].geo) = Val(KV_FALLBACK)

\* C17: the requests made for a facility are at most two on the Kartverket
\* path and at most one on the HERE path; a second request follows only a
\* first answer that is OK and empty; a failed request is the last one made
\* for the facility and leaves it with "no result"; and the only exceptions
\* that reach main are those of the storage writes.
C17_NoRetryBeyondFallback ==
    \A r \in Runs :
        (run[r].pc = "processing" /\ run[r].stage = "geocode"
            /\ run[r].i <= Len(run[r].facilities)) =>
            LET rn == run[r]
                a == rn.answers
            IN  /\ Len(a) = rn.requests
                /\ Len(a) <= (IF Provider(Current(rn)) = "kartverket" THEN 2 ELSE 1)
                /\ Len(a) = 2 => a[1] = "empty"
                /\ \A k \in 1 .. Len(a) :
                      IsTransient(a[k]) =>
                          /\ k = Len(a)
                          /\ rn.phase = "persist"
                          /\ rn.geo = NULL
                /\ rn.exceptions = Cardinality(rn.failedWrites)

\* C17, its case: the fallback request of a facility failed
C17_Witness ==
    \E r \in Runs :
        /\ InRecord(r, "geocode", "persist")
        /\ Len(run[r].answers) = 2
        /\ IsTransient(run[r].answers[2])
        /\ run[r].geo = NULL

\* C18 as claimed: no external call (CRM search, geocoder request) is issued
\* while the call before it has not been followed by a sleep.
C18_SleepBetweenExternalCalls ==
    \A r \in Runs : ~run[r].backToBack

\* C19 as claimed: for the facility "Alvim Borettslag - all" of Norway and the
\* candidate "Alvim Borettslag", the similarity of the normalized names is
\* between 0.75 and 0.85 and the normalized tier accepts the candidate.
C19_AlvimIsNormalizedMatch ==
    (/\ probe.step = "scored"
     /\ probe.name = <<"Alvim", "Borettslag", "-", "all">>
     /\ probe.country = "Norway") =>
        /\ probe.normalizedName # probe.name
        /\ 75 * probe.sim.den <= 100 * probe.sim.num
        /\ 100 * probe.sim.num <= 85 * probe.sim.den
        /\ SimilarityAccepted(probe.sim)

\* C20 as claimed: normalizing a normalized name gives the same name.
C20_NormalizeIdempotent ==
    probe.step \in {"renormalized", "scored"} => probe.again = probe.normalizedName

\* The longer of two lengths
Longer(a, b) == IF Len(a) > Len(b) THEN Len(a) ELSE Len(b)

\* C21: similarity(a, b) = similarity(b, a); similarity(a, a) = 1.0, for the
\* empty string too; the value is in [0, 1] and is (length of the longer
\* string - edit distance) / length of the longer string.
C21_SimilaritySymmetricReflexive ==
    probe.step = "compared" =>
        /\ probe.ab.den > 0 /\ probe.ba.den > 0
        /\ probe.ab.num * probe.ba.den = probe.ba.num * probe.ab.den
        /\ probe.aa.num = probe.aa.den /\ probe.aa.den > 0
        /\ 0 <= probe.ab.num /\ probe.ab.num <= probe.ab.den
        /\ Longer(probe.a, probe.b) > 0 =>
              probe.ab.num * Longer(probe.a, probe.b)
                  = (Longer(probe.a, probe.b) - EditDistance(probe.a, probe.b)) * probe.ab.den

\* C21, its case: two strings of different lengths have been compared and
\* their similarity is strictly between 0 and 1
C21_Witness ==
    /\ probe.step = "compared"
    /\ Len(probe.a) < Len(probe.b)
    /\ 0 < probe.ab.num /\ probe.ab.num < probe.ab.den

\* The results of a page that can be accepted: those with an address
Addressed(l) == {k \in 1 .. Len(l) : HasAddress(l[k])}

\* The earliest of the addressed results with the highest combined score
\* (0: the page has no addressed result)
Best(l) ==
    IF Addressed(l) = {} THEN 0
    ELSE CHOOSE k \in Addressed(l) :
            \A j \in Addressed(l) :
                \/ CombinedScore(l[j]) < CombinedScore(l[k])
                \/ (CombinedScore(l[j]) = CombinedScore(l[k]) /\ k <= j)

\* C22: the token tier returns the addressed candidate with the highest
\* combined score 0.4 x tokenScore + 0.6 x nameScore, the earliest on ties,
\* if and only if that score is over 0.55, with that score as confidence;
\* otherwise it returns no match.
C22_TokenTierAcceptsBest ==
    probe.step = "returned" =>
        LET l == probe.results
            k == Best(l)
        IN  IF k > 0 /\ 40 * TokenScore(l[k]) + 60 * NameSimilarity(l[k]) > 100 * TOKEN_THRESHOLD
            THEN probe.match = [company |-> Val(l[k]), matchType |-> "token",
                                confidence |-> CombinedScore(l[k])]
            ELSE probe.match = NoMatch

\* C22, its case: a page on which two different companies with an address
\* tie for the highest score, after a company without an address that scores
\* higher, and the first of the two is returned
C22_Witness ==
    /\ probe.step = "returned"
    /\ Len(probe.results) = 3
    /\ ~HasAddress(probe.results[1])
    /\ CombinedScore(probe.results[1]) > CombinedScore(probe.results[2])
    /\ probe.results[2] # probe.results[3]
    /\ CombinedScore(probe.results[2]) = CombinedScore(probe.results[3])
    /\ probe.match.company = Val(probe.results[2])

\* C23 as claimed: on the HERE path the result is built from the first item
\* and its confidence is the item's queryScore whenever it carries one, a
\* score of 0 included, and 0.7 only when it carries none.
C23_HereConfidenceIsScore ==
    \A r \in Runs :
        (/\ InRecord(r, "geocode", "persist")
         /\ Provider(Current(run[r])) = "here"
         /\ Len(run[r].answers) = 1
         /\ run[r].answers[1] \in {"unscored", "score0", "score90"}) =>
            LET score == QueryScore(run[r].answers[1])
            IN  /\ run[r].geo # NULL
                /\ run[r].geo[1].provider = "here"
                /\ ConfidenceOf(run[r].geo) =
                      IF score # NULL THEN score ELSE Val(HERE_DEFAULT_CONFIDENCE)

\* C24 as claimed: an invocation that has passed the validation and fetched
\* its backlog reaches Done in the end and prints the final summary there,
\* the backlog being empty or not.
C24_EveryRunReachesDone ==
    /\ \A r \in SeqRuns :
          (run[r].pc = "processing") ~> (run[r].pc = "done" /\ run[r].reported)
    /\ [](\A r \in SeqRuns : run[r].pc = "done" => run[r].reported)

\* A result of the matcher is consistent
Consistent(result) ==
    /\ result.company # NULL <=> result.matchType # "none"
    /\ result.matchType \in {"exact", "normalized", "token", "none"}
    /\ result.matchType = "exact" => result.confidence = 100
    /\ result.matchType = "normalized" =>
          (NORMALIZED_THRESHOLD < result.confidence /\ result.confidence <= 100)
    /\ result.matchType = "token" =>
          (TOKEN_THRESHOLD < result.confidence /\ result.confidence <= 100)
    /\ result.matchType = "none" => result.confidence = 0
    /\ result.company # NULL => CompanyAddress(result.company[1]) # ""

\* C25: every result of the matcher has a company exactly if its tier is not
\* "none"; exact gives confidence 1.0, normalized a confidence in (0.65, 1],
\* token a confidence in (0.55, 1], none the confidence 0; a returned company
\* has an address; the tier "fuzzy" is never produced.
C25_MatchResultConsistent ==
    \A r \in Runs :
        (run[r].stage = "sync" /\ run[r].pc = "processing") => Consistent(run[r].match)

\* C25, its case: the matcher has returned a company at the token tier, with
\* a confidence under 1.0, after an earlier search found nothing
C25_Witness ==
    \E r \in Runs :
        /\ InRecord(r, "sync", "persist")
        /\ run[r].match.matchType = "token"
        /\ run[r].match.confidence < 100
        /\ run[r].requests >= 2

\* The sum of the values of a function of the countries over a set of them
RECURSIVE SumOver(_, _)
SumOver(count, S) ==
    IF S = {} THEN 0
    ELSE LET c == CHOOSE c \in S : TRUE IN count[c] + SumOver(count, S \ {c})

\* byMatchType: the sum of the per-tier counts
TierSum(stats) == stats.exact + stats.normalized + stats.token + stats.none

\* The part of the statement that does not depend on the point looked at
StatsOrdered(rn) ==
    /\ rn.stats.updated <= rn.stats.matched
    /\ rn.stats.matched <= rn.stats.processed
    /\ SumOver([c \in Countries |-> rn.stats.byCountry[c].total], Countries)
          = rn.stats.processed
    /\ SumOver([c \in Countries |-> rn.stats.byCountry[c].matched], Countries)
          = rn.stats.matched
    /\ (rn.pc = "done" /\ ~rn.dryRun) => rn.stats.updated + rn.stats.failed = rn.stats.matched
    /\ (rn.pc = "done" /\ rn.dryRun) => (rn.stats.updated = 0 /\ rn.stats.failed = 0)

\* A matching run at work or ended
Matching(rn) == rn.stage = "sync" /\ rn.pc \in {"processing", "done"}

\* C26 as claimed: at every point of a matching run, updated <= matched <=
\* processed, the per-tier counts sum to processed, the per-country totals
\* sum to processed and the per-country matched counts to matched; at the
\* end of a run that writes updated + failed = matched, at the end of a dry
\* run updated = 0 and failed = 0.
C26_StatsAtEveryPoint ==
    \A r \in Runs :
        Matching(run[r]) =>
            /\ StatsOrdered(run[r])
            /\ TierSum(run[r].stats) = run[r].stats.processed

\* C26, amended: the same, with the per-tier counts summing to processed
\* whenever no facility is being looked up, and to processed - 1 while the
\* matcher is at work on a facility (the facility is counted as processed
\* before its search, and under its tier after it).
C26_StatsBetweenRecords ==
    \A r \in Runs :
        Matching(run[r]) =>
            /\ StatsOrdered(run[r])
            /\ TierSum(run[r].stats) =
                  IF run[r].pc = "processing"
                     /\ run[r].phase \in {"normalized", "token", "persist"}
                  THEN run[r].stats.processed - 1
                  ELSE run[r].stats.processed

\* C26, its case: a run that writes has ended after two facilities of
\* different countries, both matched, one of them with a failed write
C26_Witness ==
    \E r \in Runs :
        /\ run[r].stage = "sync" /\ run[r].pc = "done" /\ ~run[r].dryRun
        /\ run[r].stats.processed = 2
        /\ run[r].stats.matched = 2
        /\ run[r].stats.failed = 1
        /\ \A c \in Countries : run[r].stats.byCountry[c].matched = 1

\* C27: no two facilities hold the same hubspot_id; a facility whose update
\* was rejected is counted as failed, keeps an empty address and an empty
\* hubspot_id, and is returned by the matching backlog query.
C27_HubspotIdUnique ==
    /\ \A f, g \in Facilities :
          (f # g /\ db[f].hubspot_id # NULL) => db[f].hubspot_id # db[g].hubspot_id
    /\ \A r \in Runs :
          run[r].stage = "sync" =>
              /\ run[r].stats.failed = Cardinality(run[r].failedWrites)
              /\ \A f \in run[r].failedWrites :
                    /\ db[f].hubspot_id = NULL
                    /\ db[f].address = NULL
                    /\ f \in Returned("sync", db, NULL, NULL)

\* C27, its case: the matcher linked a facility to the company that another
\* facility, resolved by an earlier run, already references, and the write
\* has failed
C27_Witness ==
    \E r \in Runs : \E f \in run[r].failedWrites : \E g \in Facilities \ {f} :
        /\ run[r].stage = "sync"
        /\ run[r].outcome[g] = "-"
        /\ db[g].hubspot_id = Val(run[r].outcome[f])

\* The columns of the matching stage are the same in two rows
SameAddress(row1, row2) ==
    /\ row1.hubspot_id = row2.hubspot_id
    /\ row1.address = row2.address
    /\ row1.city = row2.city
    /\ row1.postal_code = row2.postal_code

\* The columns of the geocoding stage are the same in two rows
SameGeocode(row1, row2) ==
    /\ row1.latitude = row2.latitude
    /\ row1.longitude = row2.longitude
    /\ row1.geocode_status = row2.geocode_status
    /\ row1.geocode_confidence = row2.geocode_confidence

C29_SuccessNeverUndone ==
    [][\A f \in Facilities :
          (/\ db[f].geocode_status = "success"
           /\ db[f].latitude # NULL
           /\ db[f].longitude # NULL)
          => /\ db'[f].geocode_status # "failed"
             /\ db'[f].latitude # NULL
             /\ db'[f].longitude # NULL
             /\ db[f].geocode_confidence # NULL => db'[f].geocode_confidence # NULL]_vars

\* s is the beginning of t
IsPrefix(s, t) == Len(s) <= Len(t) /\ s = SubSeq(t, 1, Len(s))

\* C30 as claimed: the facilities whose turn has begun, and those whose turn
\* has ended, are a beginning of the fetched list (each facility at most once,
\* in the returned order); a turn begins only when the one before it has
\* ended; no more turns begin than the cap allows (--limit, or 5000 for
\* matching and 100 for geocoding); with a country filter every facility
\* gone through is of that country; and a run that has stopped has gone
\* through every facility it fetched.
C30_EachFetchedOnceInOrder ==
    \A r \in Runs :
        LET rn == run[r]
            cap == IF rn.limit # NULL THEN rn.limit[1]
                   ELSE IF rn.stage = "sync" THEN SYNC_DEFAULT_LIMIT
                   ELSE GEOCODE_DEFAULT_LIMIT
        IN  /\ IsPrefix(rn.entered, rn.facilities)
            /\ IsPrefix(rn.handled, rn.entered)
            /\ Len(rn.entered) <= Len(rn.handled) + 1
            /\ \A j, k \in 1 .. Len(rn.facilities) :
                  rn.facilities[j] = rn.facilities[k] => j = k
            /\ rn.pc \in {"processing", "done", "crashed"} => Len(rn.entered) <= cap
            /\ rn.country # NULL =>
                  \A k \in 1 .. Len(rn.entered) : Val(Country(rn.entered[k])) = rn.country
            /\ rn.pc \in Finished => rn.handled = rn.facilities

====
